---- MODULE Spec2Model ----
(***************************************************************************)
(* Model of the S3 -> GCS replication handler of src/app.py                *)
(* ("lambda function.py" part): lambda_handler, init_gcs_client,           *)
(* s3_get_object_stream, file_exists_and_same_size, retry_fn and           *)
(* upload_stream_to_gcs.                                                   *)
(*                                                                         *)
(* Strings (object keys) are sequences of code points, object contents are *)
(* sequences of bytes.  Every call that leaves the process (S3 get_object, *)
(* StreamingBody.read, Blob.exists, BlobWriter.write/close) is one step    *)
(* and may raise.                                                          *)
(***************************************************************************)
EXTENDS Integers, Sequences, FiniteSets, TLC

(* ------------------------------ bounds --------------------------------- *)
\* number of runtime instances, each handling one event at a time
NumInstances == 2
\* largest source object, in bytes
MaxObjLen == 3
\* largest RETRY_ATTEMPTS the environment supplies
MaxAttempts == 2
\* largest RETRY_BACKOFF_SEC the environment supplies
MaxBackoff == 2
\* stand-in for the 8 MiB read size of upload_stream_to_gcs (app.py:69)
chunk_size == 2

Instances == 1..NumInstances

(* ------------------------------ strings -------------------------------- *)
IsHexDigit(c) == (c >= 48 /\ c <= 57) \/ (c >= 65 /\ c <= 70) \/ (c >= 97 /\ c <= 102)

HexVal(c) == IF c <= 57 THEN c - 48 ELSE IF c <= 70 THEN c - 55 ELSE c - 87

\* str.replace('+', ' ')
replace_plus(s) == [p \in 1..Len(s) |-> IF s[p] = 43 THEN 32 ELSE s[p]]

\* urllib.parse.unquote on ASCII escapes: %XX with two hex digits becomes the
\* byte 16*X+X, anything else is kept; a byte above 127 that is not part of a
\* UTF-8 sequence decodes to U+FFFD (errors='replace').
RECURSIVE unquote(_)
unquote(s) ==
    IF s = <<>> THEN <<>>
    ELSE IF Head(s) = 37 /\ Len(s) >= 3 /\ IsHexDigit(s[2]) /\ IsHexDigit(s[3])
         THEN LET b == 16 * HexVal(s[2]) + HexVal(s[3])
              IN  <<IF b > 127 THEN 65533 ELSE b>> \o unquote(SubSeq(s, 4, Len(s)))
         ELSE <<Head(s)>> \o unquote(Tail(s))

\* a decoder that unquotes what it has unquoted
unquote_plus_twice(s) == unquote(unquote(replace_plus(s)))

unquote_plus(s) == unquote(replace_plus(s))

\* the upper-case hex digit of v in 0..15
HexDigit(v) == IF v < 10 THEN 48 + v ELSE 55 + v

\* the characters urllib.parse.quote never escapes: letters, digits, "_.-~"
IsUnreserved(c) ==
    \/ (c >= 65 /\ c <= 90) \/ (c >= 97 /\ c <= 122) \/ (c >= 48 /\ c <= 57)
    \/ c \in {95, 46, 45, 126}

\* the encoding the key of app.py:104 arrives in, for ASCII keys: what
\* urllib.parse.quote(s, safe) does, %XX for every character that is neither
\* unreserved nor in safe
RECURSIVE quote(_, _)
quote(s, safe) ==
    IF s = <<>> THEN <<>>
    ELSE (IF IsUnreserved(Head(s)) \/ Head(s) \in safe
          THEN <<Head(s)>>
          ELSE <<37, HexDigit(Head(s) \div 16), HexDigit(Head(s) % 16)>>)
         \o quote(Tail(s), safe)

\* urllib.parse.quote_plus(s): a space becomes "+", the rest is quoted
quote_plus(s) ==
    LET q == quote(s, {32}) IN [p \in 1..Len(q) |-> IF q[p] = 32 THEN 43 ELSE q[p]]

\* object keys as they arrive in notifications: "a" and "%62" (= "b")
RawKeys == { <<97>>, <<37, 54, 50>> }

ObjectKeys == { unquote_plus(r) : r \in RawKeys }

(* ------------------------------ inputs --------------------------------- *)
\* the object stored under key k when it is n bytes long: every offset holds a
\* different byte, and different keys hold different bytes at the same offset
ObjectOf(k, n) == [p \in 1..n |-> (k[1] + p) % 256]

\* the source buckets handled: all objects of a bucket have the same length
SourceBuckets == { [k \in ObjectKeys |-> ObjectOf(k, size)] : size \in 0..MaxObjLen }

\* shapes of the event argument of lambda_handler
MalformedShapes == {"no_Records", "no_bucket_name", "no_object_key", "key_not_str"}

Events ==
    [shape : {"ok"}, key : RawKeys] \cup [shape : MalformedShapes, key : { <<>> }]

NoEvent == [shape |-> "none", key |-> <<>>]

\* exceptions: the type and the upload attempt it was raised in (0: outside)
Exc(type, attempt) == [type |-> type, attempt |-> attempt]

NoExc == Exc("None", 0)

\* Python's None where the code expects a size
NoSize == -1

\* a property read that raises
SizeRaises == -2

(* ------------------------------- state --------------------------------- *)
VARIABLES
    env,    \* the process environment read at import (app.py:36-40)
    s3,     \* the source bucket: key -> content
    gcs,    \* the destination bucket GCS_BUCKET: key -> committed object
    h       \* the lambda_handler frame of each runtime instance

vars == <<env, s3, gcs, h>>

GCP_SA_KEY == env.GCP_SA_KEY
GCP_SA_KEY_B64 == env.GCP_SA_KEY_B64
RETRY_ATTEMPTS == env.RETRY_ATTEMPTS
RETRY_BACKOFF == env.RETRY_BACKOFF

NoBlob == [exists |-> FALSE, data |-> <<>>]

NoStream == [state |-> "none", pos |-> 0]

NoWriter == [state |-> "none", data |-> <<>>]

NoResult == [statusCode |-> 0, body |-> "None"]

\* a frame before the runtime has delivered its event
NoFrame ==
    [ pc        |-> "idle",
      event     |-> NoEvent,
      s3_key    |-> <<>>,       \* decoded key (app.py:106), <<>> before that
      gcs_bucket_obj |-> "None",
      s3_stream |-> NoStream,   \* the stream of app.py:115
      s3_size   |-> NoSize,
      stream    |-> NoStream,   \* upload()'s stream (app.py:131)
      f         |-> NoWriter,   \* the destination writer (app.py:68)
      chunk     |-> <<>>,       \* the chunk read and not yet written
      i         |-> 0,          \* loop variable of retry_fn
      exc       |-> NoExc,      \* exception in flight inside upload()
      last_exc  |-> NoExc,
      raised    |-> NoExc,      \* exception lambda_handler ended with
      result    |-> NoResult,   \* value lambda_handler returned
      \* bookkeeping of what the invocation has done
      calls     |-> 0,          \* calls of upload() by retry_fn
      sleeps    |-> <<>>,       \* arguments of time.sleep, in order
      unclosed  |-> 0,          \* source streams obtained and not closed
      commits   |-> <<>>,       \* objects finalized: [attempt, eof]
      gate      |-> "None",     \* what the idempotency check did, "passed"
                                \* once retry_fn is running
      replay    |-> FALSE ]     \* the event repeats the one just replicated

Environments ==
    [ GCP_SA_KEY     : BOOLEAN,          \* TRUE: set and not empty
      GCP_SA_KEY_B64 : BOOLEAN,
      RETRY_ATTEMPTS : (-1)..MaxAttempts,
      RETRY_BACKOFF  : 1..MaxBackoff ]

Init ==
    /\ env \in Environments
    /\ s3 \in SourceBuckets
    /\ gcs = [k \in ObjectKeys |-> NoBlob]
    /\ h = [n \in Instances |-> NoFrame]

Set(n, changes) == h' = [h EXCEPT ![n] = changes @@ h[n]]

\* a handler that turns the exception into a 500 result
Raise_as_500(n, e) ==
    Set(n, [pc |-> "done", result |-> [statusCode |-> 500, body |-> e.type]])

\* lambda_handler ends by raising e
Raise(n, e) == Set(n, [pc |-> "done", raised |-> e])

(* --------------------------- lambda_handler ---------------------------- *)
\* the runtime hands the next event to an instance that is not handling one;
\* the frame of the invocation before it is gone
Invoke(n) ==
    /\ h[n].pc \in {"idle", "done"}
    /\ \E ev \in Events :
          h' = [h EXCEPT ![n] =
                  [pc |-> "received", event |-> ev,
                   replay |-> /\ ev = h[n].event
                              /\ h[n].result.statusCode = 200
                              /\ (h[n].gate # "skip" \/ h[n].replay)] @@ NoFrame]
    /\ UNCHANGED <<env, s3, gcs>>

\* a normalizer that takes whatever it finds under "key"
NormalizeError_any_key(ev) ==
    IF ev.shape \in {"no_Records", "no_bucket_name", "no_object_key"}
    THEN Exc("KeyError", 0) ELSE NoExc

\* the exception of app.py:101-106 for an event, NoExc when there is none
NormalizeError(ev) ==
    CASE ev.shape = "no_Records"     -> Exc("KeyError", 0)
      [] ev.shape = "no_bucket_name" -> Exc("KeyError", 0)
      [] ev.shape = "no_object_key"  -> Exc("KeyError", 0)
      [] ev.shape = "key_not_str"    -> Exc("AttributeError", 0)
      [] OTHER                       -> NoExc

\* app.py:100-110
Normalize(n) ==
    /\ h[n].pc = "received"
    /\ IF NormalizeError(h[n].event) # NoExc
       THEN Raise(n, NormalizeError(h[n].event))
       ELSE Set(n, [pc |-> "init_gcs_client", s3_key |-> unquote_plus(h[n].event.key)])
    /\ UNCHANGED <<env, s3, gcs>>

\* init_gcs_client without its elif branch
init_gcs_client_raw_only == IF GCP_SA_KEY THEN "GCP_SA_KEY" ELSE "RuntimeError"

\* app.py:44-52: the credential init_gcs_client uses, "RuntimeError" when it raises
init_gcs_client ==
    IF GCP_SA_KEY THEN "GCP_SA_KEY"
    ELSE IF GCP_SA_KEY_B64 THEN "GCP_SA_KEY_B64"
    ELSE "RuntimeError"

\* app.py:112-113
InitGcsClient(n) ==
    /\ h[n].pc = "init_gcs_client"
    /\ IF init_gcs_client = "RuntimeError"
       THEN Raise(n, Exc("RuntimeError", 0))
       ELSE Set(n, [pc |-> "get_object", gcs_bucket_obj |-> "GCS_BUCKET"])
    /\ UNCHANGED <<env, s3, gcs>>

\* app.py:60-64 called at app.py:115; ContentLength is read with resp.get
GetObject(n) ==
    /\ h[n].pc = "get_object"
    /\ \/ \E size \in {Len(s3[h[n].s3_key]), NoSize} :
             Set(n, [pc |-> "gate", s3_stream |-> [state |-> "open", pos |-> 0],
                     s3_size |-> size,
                     unclosed |-> h[n].unclosed + 1])
       \/ Raise(n, Exc("S3Error", 0) )
    /\ UNCHANGED <<env, s3, gcs>>

\* the comparison without its "s3_size is not None" guard
file_exists_and_same_size_unguarded(exists, blob_size, s3_size) ==
    IF ~exists THEN FALSE
    ELSE IF blob_size = SizeRaises THEN FALSE
    ELSE blob_size = s3_size

\* app.py:76-83; blob_size is what the property blob.size gives
file_exists_and_same_size(exists, blob_size, s3_size) ==
    IF ~exists THEN FALSE
    ELSE IF blob_size = SizeRaises THEN FALSE
    ELSE (s3_size # NoSize) /\ (blob_size = s3_size)

\* what blob.size can give for a Blob made by bucket_obj.blob(name) on which
\* only exists() was called: the size the destination records, None when the
\* client holds no metadata for the blob, or an exception
BlobSizes(blob) == {Len(blob.data), NoSize, SizeRaises}

\* why file_exists_and_same_size answered False, in the order of app.py:78-83
NoSkipReason(exists, blob_size, s3_size) ==
    IF ~exists THEN "no_skip"
    ELSE IF blob_size = SizeRaises THEN "size_raised"
    ELSE IF s3_size = NoSize THEN "no_hint"
    ELSE IF blob_size = NoSize THEN "size_unset"
    ELSE "no_skip"

\* a handler that lacks the return of app.py:125 and goes on after the skip
Gate_no_return(n) ==
    /\ h[n].pc = "gate"
    /\ \/ Set(n, [pc |-> "retry_fn", s3_size |-> NoSize, gate |-> "exists_raised"])
       \/ \E blob_size \in BlobSizes(gcs[h[n].s3_key]) :
             IF file_exists_and_same_size(gcs[h[n].s3_key].exists, blob_size, h[n].s3_size)
             THEN Set(n, [pc |-> "retry_fn", gate |-> "skip",
                          s3_stream |-> [state |-> "closed", pos |-> 0],
                          unclosed |-> h[n].unclosed - 1,
                          result |-> [statusCode |-> 200,
                                      body |-> "Skipped - file already exists"]])
             ELSE Set(n, [pc |-> "retry_fn", s3_size |-> NoSize,
                          gate |-> NoSkipReason(gcs[h[n].s3_key].exists, blob_size,
                                                h[n].s3_size)])
    /\ UNCHANGED <<env, s3, gcs>>

\* a handler whose try of app.py:118 does not absorb the exception of exists()
Gate_propagates(n) ==
    /\ h[n].pc = "gate"
    /\ \/ Set(n, [pc |-> "done", gate |-> "exists_raised", raised |-> Exc("GCSError", 0)])
       \/ \E blob_size \in BlobSizes(gcs[h[n].s3_key]) :
             IF file_exists_and_same_size(gcs[h[n].s3_key].exists, blob_size, h[n].s3_size)
             THEN Set(n, [pc |-> "done", gate |-> "skip",
                          s3_stream |-> [state |-> "closed", pos |-> 0],
                          unclosed |-> h[n].unclosed - 1,
                          result |-> [statusCode |-> 200,
                                      body |-> "Skipped - file already exists"]])
             ELSE Set(n, [pc |-> "retry_fn", s3_size |-> NoSize,
                          gate |-> NoSkipReason(gcs[h[n].s3_key].exists, blob_size,
                                                h[n].s3_size)])
    /\ UNCHANGED <<env, s3, gcs>>

\* app.py:117-127: exists() may raise, which the handler's except absorbs;
\* s3_size is not read after the check and is dropped with it
Gate(n) ==
    /\ h[n].pc = "gate"
    /\ \/ Set(n, [pc |-> "retry_fn", s3_size |-> NoSize, gate |-> "exists_raised"])
       \/ \E blob_size \in BlobSizes(gcs[h[n].s3_key]) :
             IF file_exists_and_same_size(gcs[h[n].s3_key].exists, blob_size, h[n].s3_size)
             THEN Set(n, [pc |-> "done", gate |-> "skip",
                          s3_stream |-> [state |-> "closed", pos |-> 0],
                          unclosed |-> h[n].unclosed - 1,
                          result |-> [statusCode |-> 200,
                                      body |-> "Skipped - file already exists"]])
             ELSE Set(n, [pc |-> "retry_fn", s3_size |-> NoSize,
                          gate |-> NoSkipReason(gcs[h[n].s3_key].exists, blob_size,
                                                h[n].s3_size)])
    /\ UNCHANGED <<env, s3, gcs>>

(* ------------------------------ retry_fn ------------------------------- *)
\* app.py:87-89 and 95: the loop head; an exhausted loop raises last_exc, and
\* raising None is a TypeError
RetryFn(n) ==
    /\ h[n].pc = "retry_fn"
    /\ IF h[n].i < RETRY_ATTEMPTS
       THEN Set(n, [pc |-> "upload", calls |-> h[n].calls + 1, gate |-> "passed"])
       ELSE Set(n, [pc |-> "done", gate |-> "passed",
                    raised |-> IF h[n].last_exc = NoExc THEN Exc("TypeError", 0)
                               ELSE h[n].last_exc])
    /\ UNCHANGED <<env, s3, gcs>>

\* a backoff computed from the 0-based loop variable
backoff_sleep_zero_based(i) == RETRY_BACKOFF * i

\* app.py:94
backoff_sleep(i) == RETRY_BACKOFF * (i + 1)

\* app.py:90-91: upload() raised e; its local stream is dropped as it is
Caught(n, e) ==
    [pc |-> "except", last_exc |-> e, exc |-> NoExc, stream |-> NoStream, chunk |-> <<>>]

\* a loop that goes to its next iteration without sleeping
Backoff_no_sleep(n) ==
    /\ h[n].pc = "except"
    /\ Set(n, [pc |-> "retry_fn", i |-> h[n].i + 1])
    /\ UNCHANGED <<env, s3, gcs>>

\* a loop whose variable does not advance
Backoff_no_increment(n) ==
    /\ h[n].pc = "except"
    /\ h[n].calls <= MaxAttempts + 1
    /\ Set(n, [pc |-> "retry_fn",
               sleeps |-> IF h[n].i < RETRY_ATTEMPTS - 1
                          THEN Append(h[n].sleeps, backoff_sleep(h[n].i))
                          ELSE h[n].sleeps])
    /\ UNCHANGED <<env, s3, gcs>>

\* app.py:93-94 and the next iteration of the for loop
Backoff(n) ==
    /\ h[n].pc = "except"
    /\ Set(n, [pc |-> "retry_fn", i |-> h[n].i + 1,
               sleeps |-> IF h[n].i < RETRY_ATTEMPTS - 1
                          THEN Append(h[n].sleeps, backoff_sleep(h[n].i))
                          ELSE h[n].sleeps])
    /\ UNCHANGED <<env, s3, gcs>>

(* ------------------------------- upload -------------------------------- *)
\* an upload that resumes the source at the size of the destination object
UploadOpen_resumes(n) ==
    /\ h[n].pc = "upload"
    /\ \/ Set(n, [pc |-> "read",
                  stream |-> [state |-> "open", pos |-> Len(gcs[h[n].s3_key].data)],
                  f |-> [state |-> "open", data |-> <<>>],
                  unclosed |-> h[n].unclosed + 1])
       \/ Set(n, Caught(n, Exc("S3Error", h[n].i + 1)))
    /\ UNCHANGED <<env, s3, gcs>>

\* app.py:131 and 67-68: a fresh source stream, then the destination writer
UploadOpen(n) ==
    /\ h[n].pc = "upload"
    /\ \/ Set(n, [pc |-> "read", stream |-> [state |-> "open", pos |-> 0],
                  f |-> [state |-> "open", data |-> <<>>],
                  unclosed |-> h[n].unclosed + 1])
       \/ Set(n, Caught(n, Exc("S3Error", h[n].i + 1)))
    /\ UNCHANGED <<env, s3, gcs>>

\* the bytes of the source object a stream at pos has not delivered yet
Remaining(n) == SubSeq(s3[h[n].s3_key], h[n].stream.pos + 1, Len(s3[h[n].s3_key]))

Min(a, b) == IF a < b THEN a ELSE b

\* a read() without a size, which gives all that is left
Read_whole(n) ==
    /\ h[n].pc = "read"
    /\ \/ /\ Remaining(n) # <<>>
          /\ Set(n, [pc |-> "write", chunk |-> Remaining(n),
                     stream |-> [state |-> "open", pos |-> Len(s3[h[n].s3_key])]])
       \/ /\ Remaining(n) = <<>>
          /\ Set(n, [pc |-> "with_exit"])
       \/ Set(n, [pc |-> "with_exit_exc", exc |-> Exc("S3Error", h[n].i + 1)])
    /\ UNCHANGED <<env, s3, gcs>>

\* app.py:71-73: read(chunk_size) gives at most chunk_size bytes, b"" only at
\* the end of the object, or raises
Read(n) ==
    /\ h[n].pc = "read"
    /\ \/ /\ Remaining(n) # <<>>
          /\ \E len \in 1..Min(chunk_size, Len(Remaining(n))) :
                Set(n, [pc |-> "write", chunk |-> SubSeq(Remaining(n), 1, len),
                        stream |-> [state |-> "open", pos |-> h[n].stream.pos + len]])
       \/ /\ Remaining(n) = <<>>
          /\ Set(n, [pc |-> "with_exit"])
       \/ Set(n, [pc |-> "with_exit_exc", exc |-> Exc("S3Error", h[n].i + 1)])
    /\ UNCHANGED <<env, s3, gcs>>

\* a writer that keeps only the chunk written last
Write_overwrites(n) ==
    /\ h[n].pc = "write"
    /\ \/ Set(n, [pc |-> "read", chunk |-> <<>>,
                  f |-> [state |-> "open", data |-> h[n].chunk]])
       \/ Set(n, [pc |-> "with_exit_exc",
                  exc |-> Exc("GCSError", h[n].i + 1)])
    /\ UNCHANGED <<env, s3, gcs>>

\* app.py:74
Write(n) ==
    /\ h[n].pc = "write"
    /\ \/ Set(n, [pc |-> "read", chunk |-> <<>>,
                  f |-> [state |-> "open", data |-> h[n].f.data \o h[n].chunk]])
       \/ Set(n, [pc |-> "with_exit_exc",
                  exc |-> Exc("GCSError", h[n].i + 1)])
    /\ UNCHANGED <<env, s3, gcs>>

ClosedWriter == [state |-> "closed", data |-> <<>>]

\* the destination object a close of the writer of instance n finalizes
Finalized(n) == [exists |-> TRUE, data |-> h[n].f.data]

Commit(n, eof) == [attempt |-> h[n].i + 1, eof |-> eof]

\* an upload whose blob name is a fixed one, not the key of the event
WithExit_fixed_blob(n) ==
    /\ h[n].pc = "with_exit"
    /\ \/ /\ gcs' = [gcs EXCEPT ![<<97>>] = Finalized(n)]
          /\ Set(n, [pc |-> "stream_close", f |-> ClosedWriter,
                     commits |-> Append(h[n].commits, Commit(n, TRUE))])
       \/ /\ Set(n, [f |-> ClosedWriter] @@ Caught(n, Exc("GCSError", h[n].i + 1)))
          /\ UNCHANGED gcs
    /\ UNCHANGED <<env, s3>>

\* app.py:68, leaving the with block after the break of app.py:73: __exit__
\* closes the writer, which finalizes the object with the bytes written; a
\* close that raises commits nothing
WithExit(n) ==
    /\ h[n].pc = "with_exit"
    /\ \/ /\ gcs' = [gcs EXCEPT ![h[n].s3_key] = Finalized(n)]
          /\ Set(n, [pc |-> "stream_close", f |-> ClosedWriter,
                     commits |-> Append(h[n].commits, Commit(n, TRUE))])
       \/ /\ Set(n, [f |-> ClosedWriter] @@ Caught(n, Exc("GCSError", h[n].i + 1)))
          /\ UNCHANGED gcs
    /\ UNCHANGED <<env, s3>>

\* app.py:68, leaving the with block by the exception of a read or a write:
\* __exit__ closes the writer all the same, then the exception goes on; a close
\* that raises replaces it
WithExitExc(n) ==
    /\ h[n].pc = "with_exit_exc"
    /\ \/ /\ gcs' = [gcs EXCEPT ![h[n].s3_key] = Finalized(n)]
          /\ Set(n, [f |-> ClosedWriter,
                     commits |-> Append(h[n].commits, Commit(n, FALSE))]
                    @@ Caught(n, h[n].exc))
       \/ /\ Set(n, [f |-> ClosedWriter] @@ Caught(n, Exc("GCSError", h[n].i + 1)))
          /\ UNCHANGED gcs
    /\ UNCHANGED <<env, s3>>

\* app.py:133-137, the return of retry_fn and app.py:141-143; an exception of
\* stream.close() is swallowed
Return(n) ==
    /\ h[n].pc = "stream_close"
    /\ Set(n, [pc |-> "done", stream |-> [state |-> "closed", pos |-> h[n].stream.pos],
               unclosed |-> h[n].unclosed - 1,
               result |-> [statusCode |-> 200, body |-> "Replication successful"]])
    /\ UNCHANGED <<env, s3, gcs>>

Next ==
    \E n \in {1} :
        \/ Invoke(n) \/ Normalize(n) \/ InitGcsClient(n) \/ GetObject(n) \/ Gate(n)
        \/ RetryFn(n) \/ Backoff(n) \/ UploadOpen(n) \/ Read(n) \/ Write(n)
        \/ WithExit(n) \/ WithExitExc(n) \/ Return(n)

Spec == Init /\ [][Next]_vars

(* ------------------------------ progress ------------------------------- *)
\* the steps of one invocation, all but the delivery of its event
Steps(n) ==
    \/ Normalize(n) \/ InitGcsClient(n) \/ GetObject(n) \/ Gate(n)
    \/ RetryFn(n) \/ Backoff(n) \/ UploadOpen(n) \/ Read(n) \/ Write(n)
    \/ WithExit(n) \/ WithExitExc(n) \/ Return(n)

\* the environments with the shortest backoff and the raw key or no key: how
\* long a sleep lasts and which credential is read change no step
InitFair ==
    /\ Init
    /\ RETRY_BACKOFF = 1 /\ ~GCP_SA_KEY_B64

\* the interpreter runs the handler on: every call returns or raises, every
\* read gives bytes, the end of the stream or an error, every sleep ends
SpecFair == InitFair /\ [][Next]_vars /\ WF_vars(Steps(1))

(* ------------------------- duplicate delivery -------------------------- *)
\* the two runtime instances a duplicated event is handed to
Duplicates == {1, 2}

\* a deployed function with one credential and retries configured; the
\* destination starts empty
InitDup ==
    /\ env = [GCP_SA_KEY |-> TRUE, GCP_SA_KEY_B64 |-> FALSE,
              RETRY_ATTEMPTS |-> MaxAttempts, RETRY_BACKOFF |-> 1]
    /\ s3 \in SourceBuckets
    /\ gcs = [k \in ObjectKeys |-> NoBlob]
    /\ h = [n \in Instances |-> NoFrame]

\* the notification service delivers one well-formed event to an instance
\* that has had none, the same event to both instances
InvokeDup(n) ==
    /\ h[n].pc = "idle"
    /\ Invoke(n)
    /\ h'[n].event.shape = "ok"
    /\ \A m \in Duplicates \ {n} : h[m].event \in {NoEvent, h'[n].event}

\* the two invocations run side by side, nothing orders their steps
NextDup ==
    \E n \in Duplicates :
        \/ InvokeDup(n) \/ Normalize(n) \/ InitGcsClient(n) \/ GetObject(n) \/ Gate(n)
        \/ RetryFn(n) \/ Backoff(n) \/ UploadOpen(n) \/ Read(n) \/ Write(n)
        \/ WithExit(n) \/ WithExitExc(n) \/ Return(n)


\* each instance runs its handler on, as in SpecFair
SpecDup ==
    InitDup /\ [][NextDup]_vars /\ \A n \in Duplicates : WF_vars(Steps(n))

(* ------------------------- key normalization --------------------------- *)
\* longest key enumerated
MaxKeyLen == 3

\* "a", " ", "+", "%", "2", "0", "/"
KeyAlphabet == {97, 32, 43, 37, 50, 48, 47}

\* "my file+name.txt"
ExampleKey == <<109, 121, 32, 102, 105, 108, 101, 43, 110, 97, 109, 101, 46, 116, 120, 116>>

\* "my%20file%2Bname.txt"
ExampleQuoted ==
    <<109, 121, 37, 50, 48, 102, 105, 108, 101, 37, 50, 66, 110, 97, 109, 101, 46, 116,
      120, 116>>

\* "my+file%2Bname.txt"
ExamplePlus ==
    <<109, 121, 43, 102, 105, 108, 101, 37, 50, 66, 110, 97, 109, 101, 46, 116, 120, 116>>

PlainKeys ==
    UNION { [1..len -> KeyAlphabet] : len \in 0..MaxKeyLen } \cup {ExampleKey}

\* the two ways a notification encodes a key: space as "%20" and space as "+"
Encodings(k) == {quote(k, {47}), quote_plus(k)}

\* the source bucket holds one object, and lambda_handler was handed the
\* event for it, which carries the object's key in one of its encodings
InitKeys ==
    /\ env = [GCP_SA_KEY |-> TRUE, GCP_SA_KEY_B64 |-> FALSE,
              RETRY_ATTEMPTS |-> 1, RETRY_BACKOFF |-> 1]
    /\ \E k \in PlainKeys : \E raw \in Encodings(k) :
          /\ s3 = [key \in {k} |-> ObjectOf(k \o <<0>>, 1)]
          /\ gcs = [key \in {k} |-> NoBlob]
          /\ h = [n \in Instances |->
                 IF n = 1
                 THEN [pc |-> "received", event |-> [shape |-> "ok", key |-> raw]]
                      @@ NoFrame
                 ELSE NoFrame]

\* app.py:100-106 applied to it
NextKeys == Normalize(1)

SpecKeys == InitKeys /\ [][NextKeys]_vars

(* ------------------------------ outcomes ------------------------------- *)
Skipped(n) == h[n].pc = "done" /\ h[n].result.body = "Skipped - file already exists"

Succeeded(n) == h[n].pc = "done" /\ h[n].result.body = "Replication successful"

Failed(n) == h[n].pc = "done" /\ h[n].raised # NoExc

\* the frame is inside retry_fn
Transferring(n) ==
    h[n].pc \in {"retry_fn", "upload", "read", "write", "with_exit", "with_exit_exc",
                 "stream_close", "except"}

\* lambda_handler ended by the raise of app.py:95
Exhausted(n) == Failed(n) /\ h[n].raised.attempt >= 1

ValidConfiguration == init_gcs_client # "RuntimeError" /\ RETRY_ATTEMPTS >= 1

(* ------------------------------- claims -------------------------------- *)
\* C1: the destination writer is finalized only on an attempt whose source
\* read returned end-of-stream; an attempt in which a read or a write raised
\* commits no object.
C1_FinalizedOnlyAfterEof ==
    \A n \in Instances : \A c \in 1..Len(h[n].commits) : h[n].commits[c].eof

\* C2: with RETRY_ATTEMPTS >= 1, when every attempt fails retry_fn has called
\* upload() exactly RETRY_ATTEMPTS times, has slept RETRY_BACKOFF * i after
\* attempt i for every i < RETRY_ATTEMPTS and not after the last one, every
\* sleep coming before the next attempt, and raises the exception of the last
\* attempt.
C2_RetryExhaustion ==
    \A n \in Instances :
        /\ h[n].sleeps = [k \in 1..Len(h[n].sleeps) |-> RETRY_BACKOFF * k]
        /\ h[n].pc \in {"upload", "read", "write", "with_exit", "with_exit_exc", "except"}
              => Len(h[n].sleeps) = h[n].calls - 1
        /\ (RETRY_ATTEMPTS >= 1 /\ Exhausted(n)) =>
              /\ h[n].calls = RETRY_ATTEMPTS
              /\ Len(h[n].sleeps) = RETRY_ATTEMPTS - 1
              /\ h[n].raised = h[n].last_exc
              /\ h[n].raised.attempt = RETRY_ATTEMPTS

\* C2 witness: two attempts failed, one sleep between them, the error raised
C2_Witness ==
    \E n \in Instances :
        Exhausted(n) /\ RETRY_ATTEMPTS >= 2 /\ h[n].calls = RETRY_ATTEMPTS
            /\ Len(h[n].sleeps) = RETRY_ATTEMPTS - 1

\* C3: an attempt that succeeds has written exactly the n bytes of the source
\* object, in order, and the object committed under the same key is identical
\* to the source, for every n >= 0.
C3_SuccessfulTransferIdentical ==
    \A n \in Instances :
        /\ h[n].pc = "with_exit" => h[n].f.data = s3[h[n].s3_key]
        /\ (h[n].pc = "stream_close" \/ Succeeded(n)) =>
              gcs[h[n].s3_key] = [exists |-> TRUE, data |-> s3[h[n].s3_key]]

\* C3 witness: an object of several chunks was replicated
C3_Witness ==
    \E n \in Instances :
        Succeeded(n) /\ Len(s3[h[n].s3_key]) > chunk_size
            /\ gcs[h[n].s3_key].data = s3[h[n].s3_key]

\* C3 witness for the empty object
C3_WitnessEmpty ==
    \E n \in Instances :
        Succeeded(n) /\ s3[h[n].s3_key] = <<>> /\ gcs[h[n].s3_key].exists

\* C4: the same event delivered again after a successful replication, with
\* the source unchanged, is skipped: whenever its size hint is present and
\* its idempotency check does not raise, the gate answers skip, so upload() is
\* never called and nothing is written to the destination.
C4_ReplaySkipped ==
    \A n \in Instances :
        h[n].replay =>
            /\ h[n].gate \notin {"no_skip", "size_unset"}
            /\ h[n].gate = "skip" =>
                  /\ Skipped(n)
                  /\ h[n].calls = 0 /\ h[n].f = NoWriter /\ h[n].commits = <<>>

\* C5: when lambda_handler has ended (here under a retry policy of at least
\* one attempt), every source stream it obtained and every destination writer
\* it opened is closed.
C5_StreamsReleased ==
    \A n \in Instances :
        (h[n].pc = "done" /\ RETRY_ATTEMPTS >= 1) =>
            h[n].unclosed = 0 /\ h[n].f.state # "open"

\* C6: the gate skips only if an object exists at the destination under the
\* key and its size equals the size hint; with no size hint, no object or an
\* object of another size it does not skip.
C6_SkipOnlyIfSameSize ==
    \A n \in Instances :
        h[n].gate = "skip" =>
            /\ gcs[h[n].s3_key].exists
            /\ h[n].s3_size # NoSize
            /\ Len(gcs[h[n].s3_key].data) = h[n].s3_size

\* C6 witness: the gate skipped
C6_Witness == \E n \in Instances : Skipped(n) /\ h[n].gate = "skip"

\* C7: when the idempotency check itself raises, the invocation goes on to
\* retry_fn: it is not skipped and does not end with the error of the check.
C7_CheckFailureProceeds ==
    \A n \in Instances :
        /\ h[n].gate \in {"exists_raised", "size_raised"} =>
              /\ Transferring(n) /\ h[n].pc = "retry_fn" /\ h[n].i = 0
              /\ h[n].raised = NoExc /\ h[n].result = NoResult
        /\ Skipped(n) => h[n].gate = "skip"
        /\ (Failed(n) /\ h[n].gate # "None") =>
              (h[n].raised.attempt >= 1 \/ h[n].raised.type = "TypeError")

\* C7 witness: exists() raised and the invocation is in retry_fn
C7_Witness ==
    \E n \in Instances : h[n].gate = "exists_raised" /\ Transferring(n) /\ RETRY_ATTEMPTS >= 1

\* C7 witness: the read of blob.size raised and the invocation is in retry_fn
C7_WitnessSize ==
    \E n \in Instances : h[n].gate = "size_raised" /\ Transferring(n) /\ RETRY_ATTEMPTS >= 1

\* C8: a malformed event makes lambda_handler raise at once: no upload
\* attempt, no sleep, no source stream, no destination handle, no write.
C8_MalformedEventFailsAtOnce ==
    \A n \in Instances :
        (h[n].event.shape \in MalformedShapes /\ h[n].pc # "received") =>
            /\ h[n].pc = "done" /\ h[n].raised.type \in {"KeyError", "AttributeError"}
            /\ h[n].result = NoResult
            /\ h[n].calls = 0 /\ h[n].sleeps = <<>>
            /\ h[n].s3_stream = NoStream /\ h[n].stream = NoStream /\ h[n].unclosed = 0
            /\ h[n].gcs_bucket_obj = "None" /\ h[n].gate = "None"
            /\ h[n].f = NoWriter /\ h[n].commits = <<>>

\* C8 witness: an event whose key is not a string was rejected
C8_Witness ==
    \E n \in Instances : h[n].event.shape = "key_not_str" /\ Failed(n)

\* C9: for a well-formed event and a valid configuration, lambda_handler
\* fails only after upload() was attempted RETRY_ATTEMPTS times.
C9_FailureOnlyAfterAllAttempts ==
    \A n \in Instances :
        (h[n].event.shape = "ok" /\ ValidConfiguration /\ Failed(n)) =>
            h[n].calls = RETRY_ATTEMPTS

C10_WitnessBoth ==
    \E n \in Instances : GCP_SA_KEY /\ GCP_SA_KEY_B64 /\ Succeeded(n)

\* C11: an invocation goes Received -> Normalized -> Skipped, or on to
\* Transferring -> Succeeded or Failed: retry_fn is entered only with the
\* event normalized and the gate passed without a skip, nothing is
\* transferred after a skip, and an ended invocation has exactly one of
\* the outcomes Skipped, Succeeded, Failed, which it keeps.
C11_StateMachine ==
    /\ [](\A n \in Instances :
            /\ Transferring(n) =>
                  /\ h[n].event.shape = "ok" /\ h[n].s3_key = unquote_plus(h[n].event.key)
                  /\ h[n].gcs_bucket_obj # "None"
                  /\ h[n].gate \in {"no_skip", "no_hint", "size_unset", "size_raised",
                                    "exists_raised", "passed"}
                  /\ h[n].result = NoResult /\ h[n].raised = NoExc
            /\ h[n].gate = "skip" =>
                  Skipped(n) /\ h[n].calls = 0 /\ h[n].f = NoWriter /\ h[n].commits = <<>>
            /\ h[n].pc = "done" <=> (h[n].result # NoResult \/ h[n].raised # NoExc)
            /\ h[n].pc = "done" =>
                  /\ (Skipped(n) \/ Succeeded(n)) <=> ~Failed(n)
                  /\ ~(Skipped(n) /\ Succeeded(n)))
    /\ [][\A n \in Instances :
              h[n].pc = "done" => (h'[n] = h[n] \/ h'[n].pc = "received")]_vars

\* C11 witness: the gate did not skip, retry_fn ran, the object was replicated
C11_Witness == \E n \in Instances : Succeeded(n) /\ h[n].gate = "passed"

\* C11 witness: the gate skipped
C11_WitnessSkipped == \E n \in Instances : Skipped(n) /\ h[n].calls = 0

\* C12 as stated: a result with status 200 on success and skip, 400 on a
\* malformed event, 500 when the retries are exhausted.
C12_StatusCodes ==
    \A n \in Instances :
        h[n].pc = "done" =>
            /\ (Skipped(n) \/ Succeeded(n)) => h[n].result.statusCode = 200
            /\ h[n].event.shape \in MalformedShapes => h[n].result.statusCode = 400
            /\ Exhausted(n) => h[n].result.statusCode = 500

\* C12: lambda_handler returns a result, of status 200, exactly when the
\* object was replicated or skipped; for a malformed event and for exhausted
\* retries it returns no result and raises the exception instead.
C12_Returns200OrRaises ==
    \A n \in Instances :
        /\ h[n].result.statusCode \in {NoResult.statusCode, 200}
        /\ h[n].pc = "done" =>
              /\ (Skipped(n) \/ Succeeded(n)) =>
                    h[n].result.statusCode = 200 /\ h[n].raised = NoExc
              /\ h[n].event.shape \in MalformedShapes =>
                    h[n].result = NoResult /\ h[n].raised = NormalizeError(h[n].event)
              /\ h[n].calls >= 1 /\ ~Succeeded(n) =>
                    h[n].result = NoResult /\ h[n].raised = h[n].last_exc
                        /\ h[n].raised # NoExc

\* C12 witness: the retries were exhausted and the exception was raised
C12_Witness == \E n \in Instances : Exhausted(n) /\ h[n].result = NoResult

\* C12 witness: a malformed event was answered by an exception
C12_WitnessMalformed ==
    \E n \in Instances :
        h[n].pc = "done" /\ h[n].event.shape \in MalformedShapes /\ h[n].result = NoResult

\* C13: the key is percent-decoded once, with "+" read as a space: both
\* encodings of "my file+name.txt" give that key, every key over the
\* alphabet comes back from either of its encodings, and an escape that the
\* decoding produces ("%2520" gives "%20") stays as it is.
C13_KeyDecodedOnce ==
    /\ ExampleQuoted = quote(ExampleKey, {47}) /\ ExamplePlus = quote_plus(ExampleKey)
    /\ \A n \in Instances :
          h[n].pc = "init_gcs_client" =>
              /\ h[n].event.key \in UNION { Encodings(k) : k \in DOMAIN s3 }
              /\ h[n].s3_key \in DOMAIN s3
              /\ h[n].event.key \in {ExampleQuoted, ExamplePlus} => h[n].s3_key = ExampleKey
              /\ h[n].event.key = <<37, 50, 53, 50, 48>> => h[n].s3_key = <<37, 50, 48>>

\* C13 witness: "%2520" was normalized
C13_Witness ==
    \E n \in Instances :
        h[n].pc = "init_gcs_client" /\ h[n].event.key = <<37, 50, 53, 50, 48>>
            /\ h[n].s3_key # <<>>

\* C13 witness: "my+file%2Bname.txt" was normalized
C13_WitnessExample ==
    \E n \in Instances :
        h[n].pc = "init_gcs_client" /\ h[n].event.key = ExamplePlus /\ h[n].s3_key # <<>>

\* C14: when attempt k is the first to succeed, retry_fn returns after
\* exactly k calls of upload() and k-1 sleeps of backoff*1 .. backoff*(k-1);
\* each sleep comes after a failed attempt and before the next one, and one
\* attempt, the one of the loop variable, is in progress at a time.
C14_RetryUntilSuccess ==
    \A n \in Instances :
        /\ Succeeded(n) =>
              /\ h[n].calls = h[n].i + 1 /\ h[n].calls <= RETRY_ATTEMPTS
              /\ h[n].sleeps = [j \in 1..(h[n].calls - 1) |-> RETRY_BACKOFF * j]
              /\ h[n].commits # <<>>
              /\ h[n].commits[Len(h[n].commits)] = [attempt |-> h[n].calls, eof |-> TRUE]
              /\ h[n].calls >= 2 => h[n].last_exc.attempt = h[n].calls - 1
        /\ h[n].pc \in {"upload", "read", "write", "with_exit", "with_exit_exc",
                        "stream_close"} =>
              /\ h[n].calls = h[n].i + 1
              /\ Len(h[n].sleeps) = h[n].calls - 1
              /\ h[n].calls >= 2 => h[n].last_exc.attempt = h[n].calls - 1
        /\ h[n].pc = "except" =>
              /\ h[n].last_exc.attempt = h[n].calls /\ h[n].calls = h[n].i + 1
              /\ Len(h[n].sleeps) = h[n].calls - 1
              /\ h[n].stream = NoStream /\ h[n].f.state # "open"

\* C14 witness: the second attempt succeeded after one sleep
C14_Witness ==
    \E n \in Instances :
        Succeeded(n) /\ h[n].calls = 2 /\ h[n].sleeps = <<RETRY_BACKOFF>>

\* C15: a chunk is written before the next one is read: the chunk held is
\* never longer than the read size, none is held when a read is issued and
\* all bytes read so far are then written; the empty read ends the loop with
\* nothing written for it.
C15_OneChunkHeld ==
    \A n \in Instances :
        /\ Len(h[n].chunk) <= chunk_size
        /\ h[n].pc = "read" =>
              h[n].chunk = <<>> /\ Len(h[n].f.data) = h[n].stream.pos
        /\ h[n].pc = "write" =>
              /\ h[n].chunk # <<>>
              /\ Len(h[n].f.data) + Len(h[n].chunk) = h[n].stream.pos
        /\ h[n].pc = "with_exit" =>
              /\ h[n].chunk = <<>>
              /\ h[n].stream.pos = Len(s3[h[n].s3_key])
              /\ h[n].f.data = s3[h[n].s3_key]
        /\ h[n].pc \notin {"write", "with_exit_exc"} => h[n].chunk = <<>>

\* C15 witness: a full chunk is held after an earlier one was written, and
\* the object is longer than a chunk
C15_Witness ==
    \E n \in Instances :
        /\ h[n].pc = "write" /\ h[n].f.data # <<>> /\ Len(h[n].chunk) = chunk_size
        /\ Len(s3[h[n].s3_key]) > chunk_size

\* C15 witness: the empty read ended the loop of a non-empty object
C15_WitnessEnd ==
    \E n \in Instances : h[n].pc = "with_exit" /\ h[n].f.data # <<>>

\* C16: every attempt reads a stream of its own from offset 0 and writes
\* into a writer of its own: what its writer holds is what its stream has
\* delivered, the stream of app.py:115 is never read, and the object left by
\* a successful attempt is the source object whatever the failed attempts
\* before it committed.
C16_FreshStreamPerAttempt ==
    \A n \in Instances :
        /\ h[n].s3_stream.pos = 0
        /\ h[n].pc \in {"read", "write", "with_exit", "with_exit_exc"} =>
              /\ h[n].stream.state = "open" /\ h[n].f.state = "open"
              /\ h[n].f.data \o h[n].chunk = SubSeq(s3[h[n].s3_key], 1, h[n].stream.pos)
        /\ h[n].pc = "stream_close" =>
              gcs[h[n].s3_key] = [exists |-> TRUE, data |-> s3[h[n].s3_key]]
        /\ Succeeded(n) /\ h[n].calls >= 2 =>
              gcs[h[n].s3_key] = [exists |-> TRUE, data |-> s3[h[n].s3_key]]

\* C16 witness: the second attempt succeeded after the first one had
\* committed what it got
C16_Witness ==
    \E n \in Instances :
        /\ Succeeded(n) /\ h[n].calls = 2 /\ s3[h[n].s3_key] # <<>>
        /\ h[n].commits = <<[attempt |-> 1, eof |-> FALSE], [attempt |-> 2, eof |-> TRUE]>>

\* C17: whatever RETRY_ATTEMPTS is, retry_fn calls upload() at least once,
\* and what it raises is an exception of upload().
C17_AttemptsAtLeastOnce ==
    \A n \in Instances :
        h[n].pc = "done" /\ h[n].gate = "passed" =>
            /\ h[n].calls >= 1
            /\ h[n].raised # NoExc => h[n].raised.attempt >= 1

\* C18: two invocations handle the same event side by side: once both have
\* ended Skipped or Succeeded the destination object is the source object,
\* and no behaviour that gets there shows, at any point before, an object
\* under the key that differs from the source object.
C18_DuplicateDelivery ==
    /\ []((\A n \in Duplicates : Skipped(n) \/ Succeeded(n)) =>
            \A n \in Duplicates :
                gcs[h[n].s3_key] = [exists |-> TRUE, data |-> s3[h[n].s3_key]])
    /\ []((\E k \in ObjectKeys : gcs[k].exists /\ gcs[k].data # s3[k]) =>
            [](~(\A n \in Duplicates : Skipped(n) \/ Succeeded(n))))

\* C19: an invocation that has received its event ends Skipped, Succeeded
\* or Failed, and by then, as at any time, upload() has been called at most
\* RETRY_ATTEMPTS times and time.sleep at most RETRY_ATTEMPTS - 1 times
\* (not at all when RETRY_ATTEMPTS is below 1).
C19_Terminates ==
    /\ \A n \in Instances :
          (h[n].pc = "received") ~> (Skipped(n) \/ Succeeded(n) \/ Failed(n))
    /\ [](\A n \in Instances :
            /\ h[n].calls <= (IF RETRY_ATTEMPTS >= 1 THEN RETRY_ATTEMPTS ELSE 0)
            /\ Len(h[n].sleeps) <= (IF RETRY_ATTEMPTS >= 1 THEN RETRY_ATTEMPTS - 1 ELSE 0))

\* C19 witness: an invocation ended after using all its attempts and sleeps
C19_Witness ==
    \E n \in Instances :
        /\ h[n].pc = "done" /\ RETRY_ATTEMPTS = MaxAttempts
        /\ h[n].calls = RETRY_ATTEMPTS /\ Len(h[n].sleeps) = RETRY_ATTEMPTS - 1

\* C20: a step changes no source object, and a destination object only
\* under the decoded key of the event of an invocation that is past the
\* gate and holds an open writer; that key is fixed from the normalization
\* to the end of the invocation; an invocation that was skipped or whose
\* event was malformed has opened no writer and committed nothing.
C20_OnlyTheRequestedObject ==
    /\ [][/\ s3' = s3
          /\ \A k \in ObjectKeys :
                gcs'[k] # gcs[k] =>
                    \E n \in Instances :
                        /\ k = h[n].s3_key /\ k = unquote_plus(h[n].event.key)
                        /\ h[n].gcs_bucket_obj = "GCS_BUCKET"
                        /\ h[n].gate = "passed" /\ h[n].f.state = "open"
          /\ \A n \in Instances :
                h[n].pc \notin {"idle", "received", "done"} => h'[n].s3_key = h[n].s3_key]_vars
    /\ [](\A n \in Instances :
            Skipped(n) \/ (h[n].pc = "done" /\ h[n].event.shape \in MalformedShapes) =>
                h[n].f = NoWriter /\ h[n].commits = <<>> /\ h[n].calls = 0)

\* C20 witness: an object was replicated and the other key has none
C20_Witness ==
    \E n \in Instances : \E k \in ObjectKeys :
        /\ Succeeded(n) /\ h[n].commits # <<>> /\ k # h[n].s3_key
        /\ gcs[h[n].s3_key].exists /\ ~gcs[k].exists

\* C20 witness: a skipped invocation, the destination as it was
C20_WitnessSkipped ==
    \E n \in Instances : Skipped(n) /\ h[n].commits = <<>> /\ gcs[h[n].s3_key].exists
====
